---- MODULE Spec2Model ----
(***************************************************************************)
(* The two migration pipelines of the repository: taskMigration.ts (Zoho   *)
(* tasks -> Twenty tasks) and the contacts pipeline (Zoho contacts ->      *)
(* Twenty people).  Both are a single async main(): validate the           *)
(* environment, GET all records, then POST them in batches with a one      *)
(* second pause after each batch.  One action of the model is one turn of  *)
(* the event loop: the code that runs from one await to the next.          *)
(***************************************************************************)
EXTENDS Integers, Sequences, FiniteSets, TLC

\* ------------------------------------------------------------------ bounds
\* Longest record list a fetch returns.
MaxLen == 3
\* Largest BATCH_SIZE string of the environment, besides the default.
MaxBatch == 3
\* Numeric strings Number() is asked to parse are "0" .. ToString(MaxNumber).
MaxNumber == 50

\* History variables (log, request logs) and the clock stop growing at these
\* values.  No run with an integer batch size >= 1 gets near them; a run that
\* loops for ever (BATCH_SIZE "0") saturates them, which keeps its cycle
\* finite.
MaxRequests == MaxLen + 2
MaxLog == MaxLen + 6
MaxClock == MaxLen + 2

\* ------------------------------------------------------------ JS numbers
\* A JavaScript number: an integer, or NaN, or Infinity.  (Fractions do not
\* arise: the environment strings of the model are integers or non-numeric.)
Num(n) == [t |-> "int", v |-> n]
NaN == [t |-> "NaN", v |-> 0]
Infinity == [t |-> "Infinity", v |-> 0]
\* The value undefined, where a number is expected.
JsUndefined == [t |-> "undefined", v |-> 0]

\* a + b
JsAdd(a, b) ==
    IF a.t = "NaN" \/ b.t = "NaN" THEN NaN
    ELSE IF a.t = "Infinity" \/ b.t = "Infinity" THEN Infinity
    ELSE Num(a.v + b.v)

\* a < b (any comparison with NaN is false; undefined converts to NaN)
JsLt(a, b) ==
    IF a.t \in {"NaN", "undefined"} \/ b.t \in {"NaN", "undefined"} THEN FALSE
    ELSE IF a.t = "Infinity" THEN FALSE
    ELSE IF b.t = "Infinity" THEN TRUE
    ELSE a.v < b.v

\* Math.floor(a / b) for a >= 0, b >= 0
JsFloorDiv(a, b) ==
    IF a.t = "NaN" \/ b.t = "NaN" THEN NaN
    ELSE IF a.t = "Infinity" THEN (IF b.t = "Infinity" THEN NaN ELSE Infinity)
    ELSE IF b.t = "Infinity" THEN Num(0)
    ELSE IF b.v = 0 THEN (IF a.v = 0 THEN NaN ELSE Infinity)
    ELSE Num(a.v \div b.v)

\* ToIntegerOrInfinity, clamped into 0..len as Array.prototype.slice does
\* with a relative index (negative counts from the end).
ClampIndex(x, len) ==
    IF x.t = "NaN" THEN 0
    ELSE IF x.t = "Infinity" THEN len
    ELSE IF x.v < 0 THEN (IF len + x.v < 0 THEN 0 ELSE len + x.v)
    ELSE IF x.v > len THEN len
    ELSE x.v

\* arr.slice(start, end)
Slice(arr, start, end) ==
    LET from == ClampIndex(start, Len(arr))
        to == ClampIndex(end, Len(arr))
    IN  IF from < to THEN SubSeq(arr, from + 1, to) ELSE << >>

\* Number(s) of a string
Number(s) ==
    IF s = "" THEN Num(0)
    ELSE IF \E n \in 0..MaxNumber : ToString(n) = s
         THEN Num(CHOOSE n \in 0..MaxNumber : ToString(n) = s)
         ELSE NaN

\* x || d  for a number x (0 and NaN are falsy)
JsOr(x, d) == IF x.t = "NaN" \/ (x.t = "int" /\ x.v = 0) THEN d ELSE x

\* --------------------------------------------------------- environment
\* process.env: a variable that is not set is Undefined.
Undefined == "<undefined>"

UrlValues == {Undefined, "not a url", "https://crm.example"}
KeyValues == {Undefined, "", "secret"}
\* BATCH_SIZE: unset (the default "50" applies), non-numeric, zero, or a
\* positive integer.  (Negative and fractional strings are accepted by the
\* schema as well; they are not among the inputs of the model.)
BatchSizeValues == {Undefined, "abc", "0"} \cup {ToString(n) : n \in 1..MaxBatch}
RateLimitValues == {Undefined, "abc", "5"}

Environments ==
    [ZOHO_BASE_URL : UrlValues, ZOHO_API_KEY : KeyValues,
     TWENTY_BASE_URL : UrlValues, TWENTY_API_KEY : KeyValues,
     BATCH_SIZE : BatchSizeValues, RATE_LIMIT_PER_SECOND : RateLimitValues]

\* z.string(): the value is a string
ZString(x) == x # Undefined
\* z.string().url(): a string that parses as a URL
ZUrl(x) == ZString(x) /\ x \in {"https://crm.example"}
\* z.string().min(1)
ZMin1(x) == ZString(x) /\ x # ""
\* z.string().transform(Number).default(d): any string is accepted
ZNumberDefault(x, d) == Number(IF x = Undefined THEN d ELSE x)

\* EnvSchema.parse succeeds
EnvSchemaOk(e) ==
    /\ ZUrl(e.ZOHO_BASE_URL)
    /\ ZMin1(e.ZOHO_API_KEY)
    /\ ZUrl(e.TWENTY_BASE_URL)
    /\ ZMin1(e.TWENTY_API_KEY)

\* EnvSchema.parse(process.env), when it succeeds
EnvSchema(e) ==
    [ZOHO_BASE_URL |-> e.ZOHO_BASE_URL,
     ZOHO_API_KEY |-> e.ZOHO_API_KEY,
     TWENTY_BASE_URL |-> e.TWENTY_BASE_URL,
     TWENTY_API_KEY |-> e.TWENTY_API_KEY,
     BATCH_SIZE |-> ZNumberDefault(e.BATCH_SIZE, "50"),
     RATE_LIMIT_PER_SECOND |-> ZNumberDefault(e.RATE_LIMIT_PER_SECOND, "5")]

NoConfig == [BATCH_SIZE |-> NaN]

\* createAxiosInstance(baseURL, apiKey, isZoho), with process.env as e and
\* the path the pipeline uses the client for.  The rate limiter may hold a
\* request back before it is sent; a request counts as in flight from the
\* call to its answer, so the hold is part of its flight.
createAxiosInstance(e, baseURL, apiKey, isZoho, path) ==
    [baseURL |-> baseURL,
     path |-> path,
     timeout |-> 10000,
     Authorization |-> <<IF isZoho THEN "Zoho-oauthtoken" ELSE "Bearer", apiKey>>,
     maxRPS |-> JsOr(Number(IF e.RATE_LIMIT_PER_SECOND = Undefined THEN "undefined"
                            ELSE e.RATE_LIMIT_PER_SECOND), Num(5))]

\* EnvSchema.parse fails: the fields of the ZodError
ZodIssues(e) ==
    {f \in {"ZOHO_BASE_URL", "TWENTY_BASE_URL"} : ~ZUrl(e[f])}
        \cup {f \in {"ZOHO_API_KEY", "TWENTY_API_KEY"} : ~ZMin1(e[f])}

\* ------------------------------------------------------ source records
\* Date strings of the source and the instant (seconds) each parses to;
\* a string outside the table, or a missing date, is an Invalid Date.
DateTable ==
    {<<"2024-01-15", 10>>, <<"2024-01-15T00:00:00.000Z", 10>>, <<"2024-03-01", 56>>}

ZohoTaskSamples ==
    {[id |-> "t1", Subject |-> "Call", Status |-> "Open", Due_Date |-> "2024-01-15"],
     [id |-> "t2", Subject |-> "Email", Status |-> "In Progress", Due_Date |-> "soon"],
     [id |-> "t3", Subject |-> "Demo", Status |-> "Completed",
      Due_Date |-> "2024-01-15T00:00:00.000Z"],
     [id |-> "t4", Subject |-> "Visit", Status |-> "Deferred", Due_Date |-> Undefined]}

ZohoContactSamples ==
    {[id |-> "c1", First_Name |-> "Ada", Last_Name |-> "Lovelace",
      Email |-> "ada@example.com", Phone |-> "111", Mobile |-> "",
      Mailing_City |-> "London", Title |-> "Analyst", Mailing_Country |-> "UK"],
     [id |-> "c2", First_Name |-> "Alan", Last_Name |-> "Turing",
      Email |-> "alan@example.com", Phone |-> "222", Mobile |-> "333",
      Mailing_City |-> "Wilmslow", Title |-> "Fellow", Mailing_Country |-> "UK"]}

Samples(p) == IF p = "tasks" THEN ZohoTaskSamples ELSE ZohoContactSamples

\* All lists of at most n elements of S.
RECURSIVE SeqsUpTo(_, _)
SeqsUpTo(S, n) ==
    IF n = 0 THEN {<< >>}
    ELSE LET shorter == SeqsUpTo(S, n - 1)
         IN  shorter \cup {Append(l, x) : l \in {m \in shorter : Len(m) = n - 1}, x \in S}

\* The body of a 2xx answer to the GET, by its response.data.data: an array
\* of records ("array"), an object that is no array ("object"), nothing
\* ("undefined": the body has no data field), or none because the body
\* itself is null ("null": reading response.data.data throws).
FetchBodies(p) ==
    {[kind |-> "array", items |-> l] : l \in SeqsUpTo(Samples(p), MaxLen)}
        \cup {[kind |-> k, items |-> << >>] : k \in {"object", "undefined", "null"}}

\* The TypeError of reading a property of undefined or null.
TypeError == [hasResponse |-> FALSE, status |-> 0, dataMessage |-> Undefined,
              message |-> "Cannot read properties"]

\* What axios rejects with: a transport failure or a non-2xx response.
ErrorSamples ==
    {[hasResponse |-> FALSE, status |-> 0, dataMessage |-> Undefined,
      message |-> "timeout of 10000ms exceeded"],
     [hasResponse |-> TRUE, status |-> 429, dataMessage |-> "rate limited",
      message |-> "Request failed with status code 429"]}

\* ------------------------------------------------------------- mapping
\* new Date(date).getTime(): the instant, or NaN
DateGetTime(date) ==
    IF \E e \in DateTable : e[1] = date
    THEN Num((CHOOSE e \in DateTable : e[1] = date)[2])
    ELSE NaN

\* Date.prototype.toISOString of an instant
toISOString(t) == [iso |-> t]

mapStatus(zohoStatus) ==
    CASE zohoStatus = "Open" -> "TODO"
      [] zohoStatus = "In Progress" -> "IN_PROGESS"
      [] zohoStatus = "Completed" -> "DONE"
      [] OTHER -> "TODO"

\* Mutant of validateDate: the current time is returned for every date.
validateDateAlwaysNow(date, t) == toISOString(t)

\* validateDate(date), evaluated at time t
validateDate(date, t) ==
    LET parsed == DateGetTime(date)
    IN  IF parsed.t = "NaN" THEN toISOString(t) ELSE toISOString(parsed.v)

\* mapToTwentyTask(zohoTask, position), evaluated at time t
mapToTwentyTask(zohoTask, position, t) ==
    [title |-> zohoTask.Subject,
     status |-> mapStatus(zohoTask.Status),
     dueAt |-> validateDate(zohoTask.Due_Date, t),
     position |-> position]

\* mapToTwentyContact(zohoContact, index)
mapToTwentyContact(zohoContact, index) ==
    [name |-> [firstName |-> zohoContact.First_Name, lastName |-> zohoContact.Last_Name],
     emails |-> [primaryEmail |-> zohoContact.Email, additionalEmails |-> << >>],
     linkedinLink |-> << >>,
     jobTitle |-> zohoContact.Title,
     phones |-> [primaryPhoneNumber |-> zohoContact.Phone,
                 primaryPhoneCountryCode |-> zohoContact.Mailing_Country,
                 additionalPhones |-> <<zohoContact.Mobile>>],
     city |-> zohoContact.Mailing_City,
     position |-> JsAdd(index, Num(1)),
     createdBy |-> [source |-> "EMAIL"]]

\* Mutant of twentyTasks: the slice ends at batchSize instead of
\* startIndex + batchSize.
twentyTasksSliceToBatchSize(tasks, startIndex, batchSize, t) ==
    LET batch == Slice(tasks, startIndex, batchSize)
    IN  [index1 \in 1..Len(batch) |->
            mapToTwentyTask(batch[index1],
                            JsAdd(JsAdd(startIndex, Num(index1 - 1)), Num(1)), t)]

\* processBatch, tasks: batch.map((task, index) =>
\*     mapToTwentyTask(task, startIndex + index + 1))
twentyTasks(tasks, startIndex, batchSize, t) ==
    LET batch == Slice(tasks, startIndex, JsAdd(startIndex, batchSize))
    IN  [index1 \in 1..Len(batch) |->
            mapToTwentyTask(batch[index1],
                            JsAdd(JsAdd(startIndex, Num(index1 - 1)), Num(1)), t)]

\* processBatch, contacts: batch.map(mapToTwentyContact); Array.prototype.map
\* calls it with (element, index in batch, array).
twentyContacts(contacts, startIndex, batchSize) ==
    LET batch == Slice(contacts, startIndex, JsAdd(startIndex, batchSize))
    IN  [index1 \in 1..Len(batch) |-> mapToTwentyContact(batch[index1], Num(index1 - 1))]

\* The mapped batch processBatch posts.
MappedBatch(p, records, startIndex, batchSize, t) ==
    IF p = "tasks" THEN twentyTasks(records, startIndex, batchSize, t)
    ELSE twentyContacts(records, startIndex, batchSize)

\* handleApiError(error): the entry it logs and the error it throws.  (axios
\* rejects with an Error object, so `if (error)` holds; handleApiError throws
\* on either branch.)
handleApiError(error) ==
    LET statusCode == IF error.hasResponse /\ error.status # 0 THEN error.status ELSE 500
        message == IF error.hasResponse /\ error.dataMessage \notin {Undefined, ""}
                   THEN error.dataMessage ELSE error.message
    IN  [logged |-> [level |-> "error", message |-> "API Error",
                     statusCode |-> statusCode, detail |-> message],
         thrown |-> [name |-> "Error", message |-> <<"API Error: ", message>>]]

\* ----------------------------------------------------------------- state
VARIABLES
    pipeline,        \* which script runs: "tasks" or "contacts"
    env,             \* process.env
    config,          \* main's config, once EnvSchema.parse returned it
    pc,              \* where main is suspended: "main", "fetch", "post",
                     \* "delay"; or ended: "done", "exit"
    zohoRecords,     \* migrate*'s zohoTasks / zohoContacts
    i,               \* the batch loop's index
    batch,           \* processBatch's twentyTasks / twentyContacts
    inflight,        \* requests sent and not yet settled, per client
    timers,          \* pending setTimeout callbacks
    zohoRequests,    \* every request made through zohoAxios, with its outcome
    twentyRequests,  \* every request made through twentyAxios, with its outcome
    destination,     \* the records the destination has committed
    log,             \* what logger wrote
    exitCode,        \* the process's exit code, -1 while it runs
    now              \* the clock, in seconds

vars == <<pipeline, env, config, pc, zohoRecords, i, batch, inflight, timers,
          zohoRequests, twentyRequests, destination, log, exitCode, now>>

\* A history grows until its cap; from then on its last place holds the
\* latest entry.
Record(history, entry, cap) ==
    IF Len(history) < cap THEN Append(history, entry)
    ELSE [history EXCEPT ![cap] = entry]

RECURSIVE RecordAll(_, _, _)
RecordAll(history, entries, cap) ==
    IF entries = << >> THEN history
    ELSE RecordAll(Record(history, Head(entries), cap), Tail(entries), cap)

\* The request settles: its outcome is noted on its entry.
Settle(requests, outcome) ==
    IF requests # << >> /\ requests[Len(requests)].outcome = "pending"
    THEN [requests EXCEPT ![Len(requests)].outcome = outcome]
    ELSE requests

\* records.length
Length(records) ==
    IF records.kind = "array" THEN Num(Len(records.items)) ELSE JsUndefined

SourcePath(p) == IF p = "tasks" THEN "/crm/v2/Tasks" ELSE "/crm/v2/Contacts"
DestinationPath(p) == IF p = "tasks" THEN "/batch/tasks" ELSE "/batch/people"

Info(message) == [level |-> "info", message |-> message]

\* migrate*'s two clients
zohoAxios(c) ==
    createAxiosInstance(env, c.ZOHO_BASE_URL, c.ZOHO_API_KEY, TRUE, SourcePath(pipeline))
twentyAxios(c) ==
    createAxiosInstance(env, c.TWENTY_BASE_URL, c.TWENTY_API_KEY, FALSE,
                        DestinationPath(pipeline))

\* A request made through a client, as the request logs keep it.
Request(client, method, body) ==
    [method |-> method, url |-> <<client.baseURL, client.path>>,
     Authorization |-> client.Authorization, body |-> body, outcome |-> "pending"]

Init ==
    /\ pipeline \in {"tasks", "contacts"}
    /\ env \in Environments
    /\ config = NoConfig
    /\ pc = "main"
    /\ zohoRecords = [kind |-> "unset", items |-> << >>]
    /\ i = Num(0)
    /\ batch = << >>
    /\ inflight = [zoho |-> 0, twenty |-> 0]
    /\ timers = 0
    /\ zohoRequests = << >>
    /\ twentyRequests = << >>
    /\ destination = << >>
    /\ log = << >>
    /\ exitCode = -1
    /\ now = 0

\* Mutant of MainCatch: the error is logged and process.exit(1) is missing,
\* so the process ends with code 0 once main returns.
MainCatchNoExit(entries) ==
    /\ log' = RecordAll(log, entries, MaxLog)
    /\ pc' = "done"
    /\ exitCode' = 0

\* main's catch: the error is logged and the process exits with code 1.
\* entries are what was logged on the way up to main.
MainCatch(entries) ==
    /\ log' = RecordAll(log, entries, MaxLog)
    /\ pc' = "exit"
    /\ exitCode' = 1

\* migrate*'s catch, then main's catch, for an error that is no ZodError.
MigrateCatch(entries, error) ==
    MainCatch(entries \o <<[level |-> "error", message |-> "Migration failed", error |-> error],
                            [level |-> "error", message |-> "Unexpected error", error |-> error]>>)

\* The batch loop at its condition, with index value x and entries logged
\* since the last suspension, `settled` the requests still in flight and t
\* the time: either processBatch maps the next batch and
\* posts it, or the loop is over and the migration has succeeded.
BatchLoop(x, records, entries, settled, t) ==
    /\ i' = x
    /\ IF JsLt(x, Length(records))
       THEN /\ batch' = MappedBatch(pipeline, records.items, x, config.BATCH_SIZE, t)
            /\ twentyRequests' =
                   Record(twentyRequests, Request(twentyAxios(config), "POST", batch'),
                          MaxRequests)
            /\ inflight' = [settled EXCEPT !.twenty = @ + 1]
            /\ log' = RecordAll(log, entries, MaxLog)
            /\ pc' = "post"
            /\ UNCHANGED exitCode
       ELSE /\ log' = RecordAll(log, entries \o <<Info("Migration completed successfully")>>, MaxLog)
            /\ pc' = "done"
            /\ exitCode' = 0
            /\ inflight' = settled
            /\ UNCHANGED <<batch, twentyRequests>>

\* main() up to its first suspension: the environment is validated; if it
\* is valid, migrate* creates the two clients and sends the GET.
main ==
    /\ pc = "main"
    /\ \/ /\ ~EnvSchemaOk(env)
          /\ MainCatch(<<[level |-> "error", message |-> "Environment validation failed",
                          error |-> ZodIssues(env)]>>)
          /\ UNCHANGED <<config, zohoRequests, inflight>>
       \/ /\ EnvSchemaOk(env)
          /\ config' = EnvSchema(env)
          /\ log' = Record(log, Info(IF pipeline = "tasks" THEN "Starting task migration..."
                                      ELSE "Starting contact migration..."), MaxLog)
          /\ zohoRequests' =
                 Record(zohoRequests, Request(zohoAxios(config'), "GET", << >>), MaxRequests)
          /\ inflight' = [inflight EXCEPT !.zoho = @ + 1]
          /\ pc' = "fetch"
          /\ UNCHANGED exitCode
    /\ UNCHANGED <<pipeline, env, zohoRecords, i, batch, timers, twentyRequests,
                   destination, now>>

\* The GET is answered 2xx with `body` as response.data.data: fetchZoho*
\* returns it, migrate* logs its length and enters the batch loop.
fetchResolved ==
    /\ pc = "fetch"
    /\ inflight.zoho > 0
    /\ \E body \in FetchBodies(pipeline) :
          IF body.kind = "null"
          THEN \* response.data.data throws inside fetchZoho*'s try
               /\ MigrateCatch(<<handleApiError(TypeError).logged>>,
                               handleApiError(TypeError).thrown)
               /\ inflight' = [inflight EXCEPT !.zoho = @ - 1]
               /\ UNCHANGED <<zohoRecords, i, batch, twentyRequests>>
          ELSE IF body.kind = "undefined"
          THEN \* zohoTasks.length throws in migrate*'s try
               /\ zohoRecords' = body
               /\ MigrateCatch(<< >>, [name |-> "TypeError", message |-> TypeError.message])
               /\ inflight' = [inflight EXCEPT !.zoho = @ - 1]
               /\ UNCHANGED <<i, batch, twentyRequests>>
          ELSE /\ zohoRecords' = body
               /\ BatchLoop(Num(0), body,
                            <<[level |-> "info", message |-> "Fetched", count |-> Length(body)]>>,
                            [inflight EXCEPT !.zoho = @ - 1], now)
    /\ zohoRequests' = Settle(zohoRequests, "ok")
    /\ UNCHANGED <<pipeline, env, config, timers, destination, now>>

\* Mutant of fetchRejected: fetchZoho*'s catch logs the error and returns
\* an empty list instead of throwing.
fetchRejectedReturnsEmpty ==
    /\ pc = "fetch"
    /\ inflight.zoho > 0
    /\ \E error \in ErrorSamples :
          BatchLoop(Num(0), [kind |-> "array", items |-> << >>],
                    <<handleApiError(error).logged,
                      [level |-> "info", message |-> "Fetched", count |-> Num(0)]>>,
                    [inflight EXCEPT !.zoho = @ - 1], now)
    /\ zohoRecords' = [kind |-> "array", items |-> << >>]
    /\ zohoRequests' = Settle(zohoRequests, "failed")
    /\ UNCHANGED <<pipeline, env, config, timers, destination, now>>

\* The GET fails (transport failure or non-2xx): fetchZoho*'s catch calls
\* handleApiError, which logs and throws; migrate* and main log and exit.
fetchRejected ==
    /\ pc = "fetch"
    /\ inflight.zoho > 0
    /\ \E error \in ErrorSamples :
          MigrateCatch(<<handleApiError(error).logged>>, handleApiError(error).thrown)
    /\ zohoRequests' = Settle(zohoRequests, "failed")
    /\ inflight' = [inflight EXCEPT !.zoho = @ - 1]
    /\ UNCHANGED <<pipeline, env, config, zohoRecords, i, batch, timers, twentyRequests,
                   destination, now>>

\* Mutant of postResolved: the timer is started but not awaited, so the loop
\* goes on to the next batch at once.
postResolvedDelayNotAwaited ==
    /\ pc = "post"
    /\ inflight.twenty > 0
    /\ destination' = destination \o batch
    /\ timers' = timers + 1
    /\ \E settledRequests \in {Settle(twentyRequests, "ok")} :
          /\ i' = JsAdd(i, config.BATCH_SIZE)
          /\ IF JsLt(i', Length(zohoRecords))
             THEN /\ batch' = MappedBatch(pipeline, zohoRecords.items, i', config.BATCH_SIZE, now)
                  /\ twentyRequests' =
                         Record(settledRequests, Request(twentyAxios(config), "POST", batch'),
                                MaxRequests)
                  /\ inflight' = inflight
                  /\ pc' = "post"
                  /\ UNCHANGED exitCode
             ELSE /\ twentyRequests' = settledRequests
                  /\ inflight' = [inflight EXCEPT !.twenty = @ - 1]
                  /\ pc' = "done"
                  /\ exitCode' = 0
                  /\ UNCHANGED batch
    /\ log' = Record(log, [level |-> "info", message |-> "Processed batch",
                           number |-> JsAdd(JsFloorDiv(i, config.BATCH_SIZE), Num(1))],
                     MaxLog)
    /\ UNCHANGED <<pipeline, env, config, zohoRecords, zohoRequests, now>>

\* Mutant of postResolved: the pause is made between batches only, so after
\* the last batch the run reports success at once.
postResolvedNoDelayAfterLast ==
    /\ pc = "post"
    /\ inflight.twenty > 0
    /\ twentyRequests' = Settle(twentyRequests, "ok")
    /\ inflight' = [inflight EXCEPT !.twenty = @ - 1]
    /\ destination' = destination \o batch
    /\ IF JsLt(JsAdd(i, config.BATCH_SIZE), Length(zohoRecords))
       THEN /\ log' = Record(log, [level |-> "info", message |-> "Processed batch",
                                   number |-> JsAdd(JsFloorDiv(i, config.BATCH_SIZE), Num(1))],
                             MaxLog)
            /\ timers' = timers + 1
            /\ pc' = "delay"
            /\ UNCHANGED exitCode
       ELSE /\ log' = RecordAll(log, <<[level |-> "info", message |-> "Processed batch",
                                        number |-> JsAdd(JsFloorDiv(i, config.BATCH_SIZE), Num(1))],
                                       Info("Migration completed successfully")>>,
                                MaxLog)
            /\ pc' = "done"
            /\ exitCode' = 0
            /\ UNCHANGED timers
    /\ UNCHANGED <<pipeline, env, config, zohoRecords, i, batch, zohoRequests, now>>

\* Mutant of postResolved: the batch number logged lacks the + 1.
postResolvedNumberFromZero ==
    /\ pc = "post"
    /\ inflight.twenty > 0
    /\ twentyRequests' = Settle(twentyRequests, "ok")
    /\ inflight' = [inflight EXCEPT !.twenty = @ - 1]
    /\ destination' = destination \o batch
    /\ log' = Record(log, [level |-> "info", message |-> "Processed batch",
                           number |-> JsFloorDiv(i, config.BATCH_SIZE)],
                     MaxLog)
    /\ timers' = timers + 1
    /\ pc' = "delay"
    /\ UNCHANGED <<pipeline, env, config, zohoRecords, i, batch, zohoRequests, exitCode, now>>

\* The POST is answered 2xx: the destination has committed the batch;
\* processBatch logs the batch number and starts the one second timer.
postResolved ==
    /\ pc = "post"
    /\ inflight.twenty > 0
    /\ twentyRequests' = Settle(twentyRequests, "ok")
    /\ inflight' = [inflight EXCEPT !.twenty = @ - 1]
    /\ destination' = destination \o batch
    /\ log' = Record(log, [level |-> "info", message |-> "Processed batch",
                           number |-> JsAdd(JsFloorDiv(i, config.BATCH_SIZE), Num(1))],
                     MaxLog)
    /\ timers' = timers + 1
    /\ pc' = "delay"
    /\ UNCHANGED <<pipeline, env, config, zohoRecords, i, batch, zohoRequests, exitCode, now>>

\* Mutant of postRejected: the error is logged and swallowed, so processBatch
\* goes on as after a successful write (skip and continue).
postRejectedSkip ==
    /\ pc = "post"
    /\ inflight.twenty > 0
    /\ twentyRequests' = Settle(twentyRequests, "failed")
    /\ inflight' = [inflight EXCEPT !.twenty = @ - 1]
    /\ \E error \in ErrorSamples :
          log' = RecordAll(log, <<handleApiError(error).logged,
                                  [level |-> "info", message |-> "Processed batch",
                                   number |-> JsAdd(JsFloorDiv(i, config.BATCH_SIZE), Num(1))]>>,
                           MaxLog)
    /\ timers' = timers + 1
    /\ pc' = "delay"
    /\ UNCHANGED <<pipeline, env, config, zohoRecords, i, batch, zohoRequests,
                   destination, exitCode, now>>

\* Mutant of postRejected: before giving up, the pipeline asks the
\* destination to delete what the earlier batches wrote.
postRejectedRollback ==
    /\ pc = "post"
    /\ inflight.twenty > 0
    /\ \E error \in ErrorSamples :
          MigrateCatch(<<handleApiError(error).logged>>, handleApiError(error).thrown)
    /\ twentyRequests' =
           Record(Settle(twentyRequests, "failed"),
                  Request(twentyAxios(config), "DELETE", << >>), MaxRequests)
    /\ destination' = << >>
    /\ inflight' = [inflight EXCEPT !.twenty = @ - 1]
    /\ UNCHANGED <<pipeline, env, config, zohoRecords, i, batch, timers, zohoRequests, now>>

\* The POST fails: createTwenty*'s catch calls handleApiError, whose error
\* propagates through processBatch to migrate* and main.
postRejected ==
    /\ pc = "post"
    /\ inflight.twenty > 0
    /\ \E error \in ErrorSamples :
          MigrateCatch(<<handleApiError(error).logged>>, handleApiError(error).thrown)
    /\ twentyRequests' = Settle(twentyRequests, "failed")
    /\ inflight' = [inflight EXCEPT !.twenty = @ - 1]
    /\ UNCHANGED <<pipeline, env, config, zohoRecords, i, batch, timers, zohoRequests,
                   destination, now>>

\* The timer fires after 1000 ms: processBatch returns, the loop adds
\* BATCH_SIZE to i and tests its condition again.
delayElapsed ==
    /\ pc = "delay"
    /\ timers > 0
    /\ timers' = timers - 1
    /\ now' = IF now < MaxClock THEN now + 1 ELSE now
    /\ BatchLoop(JsAdd(i, config.BATCH_SIZE), zohoRecords, << >>, inflight, now')
    /\ UNCHANGED <<pipeline, env, config, zohoRecords, zohoRequests, destination>>

Next ==
    \/ main
    \/ fetchResolved
    \/ fetchRejected
    \/ postResolved
    \/ postRejected
    \/ delayElapsed

Spec == Init /\ [][Next]_vars

\* Every request is eventually answered and every timer eventually fires.
FairSpec == Spec /\ WF_vars(Next)

\* ------------------------------------------------------------ vocabulary
Terminated == pc \in {"done", "exit"}

\* BATCH_SIZE as the specification wants it: a positive integer.
PositiveInteger(x) == x.t = "int" /\ x.v >= 1

\* The records of all requests' bodies, in call order.
RECURSIVE Bodies(_)
Bodies(requests) ==
    IF requests = << >> THEN << >>
    ELSE Head(requests).body \o Bodies(Tail(requests))

\* The records of the requests the destination answered 2xx.
RECURSIVE CommittedBodies(_)
CommittedBodies(requests) ==
    IF requests = << >> THEN << >>
    ELSE (IF Head(requests).outcome = "ok" THEN Head(requests).body ELSE << >>)
             \o CommittedBodies(Tail(requests))

\* Which source record a destination record was made from.
SourceKey(p, s) == IF p = "tasks" THEN <<s.Subject>> ELSE <<s.First_Name, s.Email>>
DestinationKey(p, d) ==
    IF p = "tasks" THEN <<d.title>> ELSE <<d.name.firstName, d.emails.primaryEmail>>

\* ------------------------------------------------------------------ C1
\* C1: in both pipelines, with a batch size B >= 1, the record at offset o of
\* the batch that starts at source index start carries position
\* start + o + 1, so the i-th source record carries position i + 1.
C1_PositionIsIndexPlusOne ==
    PositiveInteger(config.BATCH_SIZE) =>
        \A k \in 1..Len(twentyRequests) :
            \A o \in 1..Len(twentyRequests[k].body) :
                twentyRequests[k].body[o].position
                    = Num((k - 1) * config.BATCH_SIZE.v + (o - 1) + 1)

\* ------------------------------------------------------------------ C2
\* C2: when the write of batch k fails, the writer has been called exactly
\* k times, the failed write is the last call for ever (no later batch, no
\* retry: nothing is in flight and no timer is pending), and the run has
\* ended with a fatal failure (exit code 1, the error logged).
C2_FailureAborts ==
    \A k \in 1..Len(twentyRequests) :
        twentyRequests[k].outcome = "failed" =>
            /\ Len(twentyRequests) = k
            /\ \A j \in 1..(k - 1) : twentyRequests[j].outcome = "ok"
            /\ inflight.twenty = 0
            /\ timers = 0
            /\ pc = "exit"
            /\ exitCode = 1
            /\ log[Len(log)].message = "Unexpected error"

\* Reached: batch 2 failed while records of a third batch were still to be
\* written.
C2_Witness ==
    /\ PositiveInteger(config.BATCH_SIZE)
    /\ Len(twentyRequests) = 2
    /\ twentyRequests[2].outcome = "failed"
    /\ zohoRecords.kind = "array"
    /\ Len(zohoRecords.items) > 2 * config.BATCH_SIZE.v

\* ------------------------------------------------------------------ C3
\* C3: with a batch size B >= 1 and N fetched records, a run that ends in
\* success has made exactly ceil(N/B) writer calls, each of B records except
\* the last (which has the rest), all answered 2xx, and the records of the
\* calls taken together are the fetched records in their order.
C3_BatchesPartitionTheSource ==
    (pc = "done" /\ PositiveInteger(config.BATCH_SIZE) /\ zohoRecords.kind = "array") =>
        LET N == Len(zohoRecords.items)
            B == config.BATCH_SIZE.v
            calls == Len(twentyRequests)
            posted == Bodies(twentyRequests)
        IN  /\ calls = (N + B - 1) \div B
            /\ \A k \in 1..calls :
                  /\ twentyRequests[k].outcome = "ok"
                  /\ Len(twentyRequests[k].body) = IF k < calls THEN B ELSE N - (calls - 1) * B
            /\ Len(posted) = N
            /\ \A j \in 1..N :
                  DestinationKey(pipeline, posted[j]) = SourceKey(pipeline, zohoRecords.items[j])

\* Reached: a successful run of several batches whose last batch is short,
\* over records that differ.
C3_Witness ==
    /\ pc = "done"
    /\ PositiveInteger(config.BATCH_SIZE)
    /\ zohoRecords.kind = "array"
    /\ config.BATCH_SIZE.v = 2
    /\ Len(zohoRecords.items) = 3
    /\ zohoRecords.items[1] # zohoRecords.items[3]
    /\ Len(twentyRequests) = 2

\* ------------------------------------------------------------------ C4
\* C4: every run whose configuration passes the startup validation ends, in
\* success or in a fatal failure, provided every request is answered and
\* every timer fires.  (A run whose configuration is rejected ends at once.)
C4_RunTerminates == <>Terminated

\* ------------------------------------------------------------------ C5
\* The configuration the specification calls invalid: a base URL or key
\* missing or malformed, or a batch size or rate limit that is set and is
\* no positive integer.
InvalidConfiguration(e) ==
    \/ ~ZUrl(e.ZOHO_BASE_URL) \/ ~ZUrl(e.TWENTY_BASE_URL)
    \/ ~ZMin1(e.ZOHO_API_KEY) \/ ~ZMin1(e.TWENTY_API_KEY)
    \/ ~PositiveInteger(ZNumberDefault(e.BATCH_SIZE, "50"))
    \/ ~PositiveInteger(ZNumberDefault(e.RATE_LIMIT_PER_SECOND, "5"))

\* C5: with an invalid configuration the validation fails and no request,
\* to the source or to the destination, is ever made.
C5_InvalidConfigurationStartsNothing ==
    InvalidConfiguration(env) =>
        /\ pc \in {"main", "exit"}
        /\ zohoRequests = << >>
        /\ twentyRequests = << >>
        /\ inflight = [zoho |-> 0, twenty |-> 0]

\* ------------------------------------------------------------------ C6
\* C6: in every state of a run of either pipeline the positions of the
\* records submitted so far are strictly increasing in submission order
\* (so no two are equal), across batch boundaries.
C6_PositionsStrictlyIncrease ==
    LET posted == Bodies(twentyRequests)
    IN  \A a, b \in 1..Len(posted) :
            a < b => JsLt(posted[a].position, posted[b].position)

\* ------------------------------------------------------------------ C7
\* C7: when the GET fails, the run has ended with a fatal failure (exit
\* code 1) and no record was fetched, mapped or written: the writer was
\* never called.
C7_FetchFailureIsFatal ==
    (zohoRequests # << >> /\ zohoRequests[1].outcome = "failed") =>
        /\ twentyRequests = << >>
        /\ inflight = [zoho |-> 0, twenty |-> 0]
        /\ zohoRecords.kind = "unset"
        /\ batch = << >>
        /\ pc = "exit"
        /\ exitCode = 1

\* Reached: the GET failed with a non-2xx answer.
C7_Witness ==
    /\ zohoRequests # << >>
    /\ zohoRequests[1].outcome = "failed"
    /\ \E n \in 1..Len(log) : log[n].message = "API Error" /\ log[n].statusCode = 429

\* ------------------------------------------------------------------ C8
\* C8: the pipeline makes no request to the destination but the batch
\* POSTs, and none after a failed one; so the destination holds exactly the
\* records of the batches answered 2xx, which after the failure of batch k
\* are those of batches 1 .. k-1.
C8_WrittenBatchesStay ==
    /\ \A k \in 1..Len(twentyRequests) :
          /\ twentyRequests[k].method = "POST"
          /\ twentyRequests[k].outcome = "failed" =>
                /\ Len(twentyRequests) = k
                /\ inflight.twenty = 0
                /\ destination = Bodies(SubSeq(twentyRequests, 1, k - 1))
    /\ destination = CommittedBodies(twentyRequests)

\* Reached: a batch failed after an earlier batch had been committed.
C8_Witness ==
    /\ Len(twentyRequests) >= 2
    /\ twentyRequests[Len(twentyRequests)].outcome = "failed"
    /\ destination # << >>
    /\ pc = "exit"

\* ------------------------------------------------------------------ C9
\* C9: at most one request is in flight; while a POST is in flight the GET
\* has been answered, every earlier POST has been answered 2xx and its one
\* second delay has elapsed (no timer is pending, and the clock has advanced
\* by a second per earlier POST); and while a timer is pending nothing is in
\* flight.
C9_OneRequestAtATime ==
    /\ inflight.zoho + inflight.twenty <= 1
    /\ timers <= 1
    /\ timers > 0 => inflight.zoho + inflight.twenty = 0
    /\ inflight.zoho > 0 => twentyRequests = << >>
    /\ inflight.twenty > 0 =>
          /\ zohoRequests[1].outcome = "ok"
          /\ \A k \in 1..(Len(twentyRequests) - 1) : twentyRequests[k].outcome = "ok"
    /\ \A k \in 1..Len(twentyRequests) :
          twentyRequests[k].outcome = "pending" =>
              /\ k = Len(twentyRequests)
              /\ inflight.twenty = 1
              /\ timers = 0
              /\ now >= k - 1

\* Reached: the second POST is in flight.
C9_Witness ==
    /\ Len(twentyRequests) = 2
    /\ twentyRequests[2].outcome = "pending"
    /\ inflight.twenty = 1

\* ----------------------------------------------------------------- C10
\* Every request the run made was answered 2xx.
AllRequestsSucceeded ==
    /\ zohoRequests # << >>
    /\ zohoRequests[1].outcome = "ok"
    /\ \A k \in 1..Len(twentyRequests) : twentyRequests[k].outcome = "ok"

DelaysElapsed == now

\* The success report is in the log.
SuccessReported ==
    \E n \in 1..Len(log) : log[n].message = "Migration completed successfully"

\* C11: with a batch size B >= 1, delay k lies between the answer to write k
\* and the dispatch of write k+1: while write k is in flight k-1 delays have
\* elapsed, while delay k is pending write k has been answered 2xx and k-1
\* delays have elapsed; a run that ends in success over ceil(N/B) batches has
\* had exactly ceil(N/B) delays, and success is reported only then.
C11_DelayAfterEveryBatch ==
    (PositiveInteger(config.BATCH_SIZE) /\ zohoRecords.kind = "array") =>
        LET N == Len(zohoRecords.items)
            B == config.BATCH_SIZE.v
            calls == Len(twentyRequests)
        IN  /\ pc = "post" => timers = 0 /\ DelaysElapsed = calls - 1
            /\ pc = "delay" =>
                  /\ timers = 1
                  /\ twentyRequests[calls].outcome = "ok"
                  /\ DelaysElapsed = calls - 1
            /\ pc = "done" =>
                  /\ timers = 0
                  /\ calls = (N + B - 1) \div B
                  /\ DelaysElapsed = calls
            /\ SuccessReported => pc = "done"

\* Reached: a successful run of two batches, after two delays.
C11_Witness ==
    /\ pc = "done"
    /\ PositiveInteger(config.BATCH_SIZE)
    /\ zohoRecords.kind = "array"
    /\ Len(twentyRequests) = 2
    /\ DelaysElapsed = 2
    /\ SuccessReported


\* ----------------------------------------------------------------- C12
\* The status mapping the specification states.
StatedStatus(zohoStatus) ==
    CASE zohoStatus = "Open" -> "TODO"
      [] zohoStatus = "In Progress" -> "IN_PROGRESS"
      [] zohoStatus = "Completed" -> "DONE"
      [] OTHER -> "TODO"

\* C12: every task record submitted carries the status the mapping "Open" ->
\* TODO, "In Progress" -> IN_PROGRESS, "Completed" -> DONE, anything else ->
\* TODO gives for its source record's status, so its status is one of TODO,
\* IN_PROGRESS, DONE.  (A task's position is its source index + 1.)
C12_StatusMapping ==
    (pipeline = "tasks" /\ zohoRecords.kind = "array") =>
        \A k \in 1..Len(twentyRequests) :
            \A o \in 1..Len(twentyRequests[k].body) :
                LET d == twentyRequests[k].body[o]
                IN  /\ d.status \in {"TODO", "IN_PROGRESS", "DONE"}
                    /\ d.status = StatedStatus(zohoRecords.items[d.position.v].Status)


\* ----------------------------------------------------------------- C13
\* With a batch size B >= 1: the source record of the record at place o of
\* the k-th request, and that source record mapped again, with the position
\* it was given, at time t.
SourceOf(k, o) == zohoRecords.items[(k - 1) * config.BATCH_SIZE.v + o]
MappedAgain(k, o, t) ==
    IF pipeline = "tasks"
    THEN mapToTwentyTask(SourceOf(k, o), twentyRequests[k].body[o].position, t)
    ELSE mapToTwentyContact(SourceOf(k, o), Num(o - 1))

\* The record's due date is missing or does not parse.
DueDateInvalid(s) == DateGetTime(s.Due_Date).t = "NaN"

\* C13 as stated: mapping a submitted record's source record again, with the
\* same position, at any later moment of the run gives the record that was
\* submitted, also when the due date is missing or unparseable.
C13_MappingDeterministicAsStated ==
    (PositiveInteger(config.BATCH_SIZE) /\ zohoRecords.kind = "array") =>
        \A k \in 1..Len(twentyRequests) :
            \A o \in 1..Len(twentyRequests[k].body) :
                MappedAgain(k, o, now) = twentyRequests[k].body[o]

\* C13 amended: mapping again at a later moment gives the submitted record
\* for every contact and for every task whose due date parses; for a task
\* whose due date is missing or unparseable it gives a record equal in every
\* field but dueAt, which is the time of the mapping (k - 1 seconds into the
\* run for batch k, the current time for the second mapping).
C13_MappingDeterministic ==
    (PositiveInteger(config.BATCH_SIZE) /\ zohoRecords.kind = "array") =>
        \A k \in 1..Len(twentyRequests) :
            \A o \in 1..Len(twentyRequests[k].body) :
                LET first == twentyRequests[k].body[o]
                    again == MappedAgain(k, o, now)
                IN  IF pipeline = "tasks" /\ DueDateInvalid(SourceOf(k, o))
                    THEN /\ [again EXCEPT !.dueAt = first.dueAt] = first
                         /\ first.dueAt = toISOString(k - 1)
                         /\ again.dueAt = toISOString(now)
                    ELSE again = first

\* Reached: in the tasks pipeline, a second after the first batch was mapped,
\* that batch holds a task whose due date parses and one whose does not.
C13_Witness ==
    /\ pipeline = "tasks"
    /\ PositiveInteger(config.BATCH_SIZE)
    /\ zohoRecords.kind = "array"
    /\ now >= 1
    /\ Len(twentyRequests) >= 1
    /\ Len(twentyRequests[1].body) >= 2
    /\ ~DueDateInvalid(SourceOf(1, 1))
    /\ DueDateInvalid(SourceOf(1, 2))


\* ----------------------------------------------------------------- C14
\* An error entry of the log with a status code and a message.
ApiErrorEntry(e) ==
    /\ e.level = "error"
    /\ {"statusCode", "detail"} \subseteq DOMAIN e

\* An error entry of the log that names batch k.
NamesBatch(e, k) ==
    /\ e.level = "error"
    /\ \/ "batch" \in DOMAIN e /\ e.batch = Num(k)
       \/ "number" \in DOMAIN e /\ e.number = Num(k)

\* C14: a failed GET or POST is logged with status code and message and the
\* error reaches main (the run ends with exit code 1); for the failed write
\* of batch k there is also an error entry that names batch k.
C14_ErrorsLoggedWithBatch ==
    PositiveInteger(config.BATCH_SIZE) =>
        /\ (zohoRequests # << >> /\ zohoRequests[1].outcome = "failed") =>
              /\ \E n \in 1..Len(log) : ApiErrorEntry(log[n])
              /\ pc = "exit" /\ exitCode = 1
        /\ \A k \in 1..Len(twentyRequests) :
              twentyRequests[k].outcome = "failed" =>
                  /\ \E n \in 1..Len(log) : ApiErrorEntry(log[n])
                  /\ \E n \in 1..Len(log) : NamesBatch(log[n], k)
                  /\ pc = "exit" /\ exitCode = 1


\* ----------------------------------------------------------------- C15
\* C15: a 2xx answer to the GET whose record collection is an empty
\* sequence gives a run of no batch and no write that ends in success; one
\* whose record collection is missing or is no sequence never gives a
\* reported success: the run ends in a fatal failure without a write.
C15_RecordCollectionMustBeSequence ==
    /\ (zohoRecords.kind = "array" /\ zohoRecords.items = << >>) =>
          /\ twentyRequests = << >>
          /\ pc = "done" /\ exitCode = 0
          /\ SuccessReported
    /\ zohoRecords.kind \in {"object", "undefined"} =>
          /\ twentyRequests = << >>
          /\ pc = "exit" /\ exitCode = 1
          /\ ~SuccessReported


\* ----------------------------------------------------------------- C16
\* C16: under every configuration the validation accepts, when a run over a
\* fetched list has reported success and ended with exit code 0, the records
\* submitted are the fetched records, each once, and no writer call carried
\* an empty batch.
C16_SuccessImpliesCompleteness ==
    (pc = "done" /\ exitCode = 0 /\ SuccessReported /\ zohoRecords.kind = "array") =>
        LET posted == Bodies(twentyRequests)
        IN  /\ Len(posted) = Len(zohoRecords.items)
            /\ \A j \in 1..Len(posted) :
                  DestinationKey(pipeline, posted[j]) = SourceKey(pipeline, zohoRecords.items[j])
            /\ \A k \in 1..Len(twentyRequests) : twentyRequests[k].body # << >>


\* ----------------------------------------------------------------- C17
IsProcessedEntry(e) == e.message = "Processed batch"

\* The 'Processed batch' entries of the log, in order.
ProcessedEntries == SelectSeq(log, IsProcessedEntry)

\* C17: with a batch size B >= 1 the 'Processed batch' entries are numbered
\* 1, 2, ... in order, one for each write answered 2xx and none for any
\* other: entry k is there once write k has been answered 2xx (its number is
\* floor(start/B) + 1) and before write k+1 is dispatched, and a failed
\* write k leaves k-1 entries, no pending timer and k-1 elapsed delays.
C17_ProcessedBatchesLogged ==
    (PositiveInteger(config.BATCH_SIZE) /\ zohoRecords.kind = "array") =>
        LET m == Len(ProcessedEntries)
            B == config.BATCH_SIZE.v
        IN  /\ \A n \in 1..m :
                  /\ ProcessedEntries[n].level = "info"
                  /\ ProcessedEntries[n].number = Num(n)
                  /\ n <= Len(twentyRequests)
                  /\ twentyRequests[n].outcome = "ok"
                  /\ Slice(zohoRecords.items, Num((n - 1) * B), Num(n * B)) # << >>
            /\ pc = "delay" => ProcessedEntries[m].number = Num((i.v \div B) + 1)
            /\ \A k \in 1..Len(twentyRequests) :
                  /\ twentyRequests[k].outcome = "ok" => m >= k
                  /\ twentyRequests[k].outcome = "pending" => m = k - 1
                  /\ twentyRequests[k].outcome = "failed" =>
                        m = k - 1 /\ timers = 0 /\ DelaysElapsed = k - 1

\* Reached: batches 1 and 2 were logged as processed and the write of batch
\* 3 failed.
C17_Witness ==
    /\ PositiveInteger(config.BATCH_SIZE)
    /\ zohoRecords.kind = "array"
    /\ Len(ProcessedEntries) = 2
    /\ Len(twentyRequests) = 3
    /\ twentyRequests[3].outcome = "failed"

====
